---------------------------- MODULE Spec2Model ----------------------------
(***************************************************************************)
(* Model of k8s.go of gitlab-runner-kubevirt: CreateJobVM, Selector and    *)
(* FindJobVM, run against a cluster that stores VirtualMachineInstances.   *)
(*                                                                         *)
(* Strings the code formats or parses (the job ID, the label key, the      *)
(* label selector, the four resource quantities) are sequences of          *)
(* one-character strings, so that formatting and parsing are computed.     *)
(* Strings the code only passes through (Namespace, BaseName, Image,       *)
(* ImagePullPolicy, MachineType) are plain strings.                        *)
(*                                                                         *)
(* Each of CreateJobVM and FindJobVM makes at most one call to the cluster *)
(* and keeps no state of its own, so every interleaving of concurrent      *)
(* calls is a sequence of the atomic actions below, ordered by the moment  *)
(* of their cluster call.                                                  *)
(***************************************************************************)
EXTENDS Naturals, Sequences, FiniteSets

\* Most instances the cluster ever admits (its quota); past it Create fails.
MaxVMs == 2

VARIABLES
    cluster,      \* the VirtualMachineInstances the cluster holds
    nameCounter,  \* how many names the cluster has generated
    op,           \* the operation that ran last
    jctx,         \* its *JobContext
    ret,          \* the instance it returned (Nil: none)
    err,          \* the error it returned (NoErr: nil)
    apiCalls,     \* the cluster calls it issued, in order
    succeeded,    \* history: per <<namespace, ID>>, the CreateJobVM calls that succeeded
    sole          \* history: per <<namespace, ID>>, the name CreateJobVM returned when it
                  \* created the only instance so labelled, while none was created or
                  \* deleted with that label since (NoName otherwise)

vars == <<cluster, nameCounter, op, jctx, ret, err, apiCalls, succeeded, sole>>

----------------------------------------------------------------------------
\* Inputs

\* "gitlab-runner-kubevirt.snai.pe"
labelPrefix ==
    <<"g","i","t","l","a","b","-","r","u","n","n","e","r","-",
      "k","u","b","e","v","i","r","t",".","s","n","a","i",".","p","e">>

\* "job-1" and "job-2". Job IDs are label values: CreateJobVM sets the ID as the
\* value of a label, and the cluster admits no other.
IDs == { <<"j","o","b","-","1">>, <<"j","o","b","-","2">> }

Namespaces == {"ns1", "ns2"}

CPURequests == { <<"2","5","0","m">>, <<"x">> }
CPULimits == { <<"5","0","0","m">>, <<>> }
MemoryRequests == { <<"2","5","6","M","i">>, <<"M","i">> }
MemoryLimits == { <<"1","G","i">>, <<"1","G","x">> }
Images == {"", "registry/test:latest"}

Contexts(ids, namespaces) ==
    [ID : ids, BaseName : {"runner-"}, Namespace : namespaces,
     CPURequest : CPURequests, CPULimit : CPULimits,
     MemoryRequest : MemoryRequests, MemoryLimit : MemoryLimits,
     Image : Images, ImagePullPolicy : {"IfNotPresent"}, MachineType : {"q35"}]

NoJob ==
    [ID |-> <<>>, BaseName |-> "", Namespace |-> "",
     CPURequest |-> <<>>, CPULimit |-> <<>>,
     MemoryRequest |-> <<>>, MemoryLimit |-> <<>>,
     Image |-> "", ImagePullPolicy |-> "", MachineType |-> ""]

Nil == [Name |-> <<"", 0>>]
NoName == <<"", 0>>

Error(kind, field, count, id) ==
    [kind |-> kind, field |-> field, count |-> count, id |-> id]

NoErr == Error("nil", "", 0, <<>>)

----------------------------------------------------------------------------
\* resource.ParseQuantity: digits followed by one of the quantity suffixes

DigitChars == <<"0","1","2","3","4","5","6","7","8","9">>

IsDigit(c) == \E i \in 1..Len(DigitChars) : DigitChars[i] = c

DigitVal(c) == (CHOOSE i \in 1..Len(DigitChars) : DigitChars[i] = c) - 1

QuantitySuffixes ==
    { <<>>, <<"m">>, <<"k">>, <<"M">>, <<"G">>,
      <<"K","i">>, <<"M","i">>, <<"G","i">> }

RECURSIVE DigitsLen(_)
DigitsLen(s) ==
    IF s = <<>> \/ ~IsDigit(Head(s)) THEN 0 ELSE 1 + DigitsLen(Tail(s))

RECURSIVE ToNat(_)
ToNat(s) ==
    IF s = <<>> THEN 0 ELSE 10 * ToNat(SubSeq(s, 1, Len(s) - 1)) + DigitVal(s[Len(s)])

ParseQuantity(s) ==
    LET n == DigitsLen(s)
        suffix == SubSeq(s, n + 1, Len(s))
    IN  IF n = 0 \/ suffix \notin QuantitySuffixes
        THEN [ok |-> FALSE, value |-> 0, suffix |-> <<>>]
        ELSE [ok |-> TRUE, value |-> ToNat(SubSeq(s, 1, n)), suffix |-> suffix]

Quantity(s) == [value |-> ParseQuantity(s).value, suffix |-> ParseQuantity(s).suffix]

----------------------------------------------------------------------------
\* CreateJobVM, the local part

\* Mutant: the memory quantities are parsed before the cpu quantities.
ParseFailure_MemoryFirst(j) ==
    IF ~ParseQuantity(j.MemoryRequest).ok THEN "memory.request"
    ELSE IF ~ParseQuantity(j.MemoryLimit).ok THEN "memory.limit"
    ELSE IF ~ParseQuantity(j.CPURequest).ok THEN "cpu.request"
    ELSE IF ~ParseQuantity(j.CPULimit).ok THEN "cpu.limit"
    ELSE ""

\* The field whose quantity fails to parse first ("" when all four parse).
ParseFailure(j) ==
    IF ~ParseQuantity(j.CPURequest).ok THEN "cpu.request"
    ELSE IF ~ParseQuantity(j.CPULimit).ok THEN "cpu.limit"
    ELSE IF ~ParseQuantity(j.MemoryRequest).ok THEN "memory.request"
    ELSE IF ~ParseQuantity(j.MemoryLimit).ok THEN "memory.limit"
    ELSE ""

\* Mutant: the check reads BaseName where it should read Image.
ImageMissing_BaseName(j) == j.BaseName = ""

ImageMissing(j) == j.Image = ""

\* The contexts the operations are called with: every context that passes the
\* local checks, and every way of failing them for one ID and Namespace (the
\* checks read neither).
ValidContexts ==
    {j \in Contexts(IDs, Namespaces) : ParseFailure(j) = "" /\ ~ImageMissing(j)}

InvalidContexts ==
    {j \in Contexts({<<"j","o","b","-","1">>}, {"ns1"}) :
        ParseFailure(j) # "" \/ ImageMissing(j)}

JobContexts == ValidContexts \cup InvalidContexts

LabelKey == labelPrefix \o <<"/","i","d">>

\* Mutant: the cpu request and the cpu limit change places.
resources_Swapped(j) ==
    [Requests |-> [cpu |-> Quantity(j.CPULimit), memory |-> Quantity(j.MemoryRequest)],
     Limits |-> [cpu |-> Quantity(j.CPURequest), memory |-> Quantity(j.MemoryLimit)]]

resources(j) ==
    [Requests |-> [cpu |-> Quantity(j.CPURequest), memory |-> Quantity(j.MemoryRequest)],
     Limits |-> [cpu |-> Quantity(j.CPULimit), memory |-> Quantity(j.MemoryLimit)]]

instanceTemplate(j) ==
    [GenerateName |-> j.BaseName,
     Labels |-> [k \in {LabelKey} |-> j.ID],
     Resources |-> resources(j),
     MachineType |-> j.MachineType,
     Disks |-> <<"root">>,
     Volumes |-> <<[Name |-> "root", Image |-> j.Image,
                    ImagePullPolicy |-> j.ImagePullPolicy]>>]

----------------------------------------------------------------------------
\* The cluster, as the two calls the code makes see it

\* The instance Create stores and returns for a template: the template with the
\* generated name and the namespace of the call.
Admitted(ns, tmpl, n) ==
    [Name |-> <<tmpl.GenerateName, n>>,
     Namespace |-> ns,
     Labels |-> tmpl.Labels,
     Resources |-> tmpl.Resources,
     MachineType |-> tmpl.MachineType,
     Disks |-> tmpl.Disks,
     Volumes |-> tmpl.Volumes]

\* Mutant: the call goes to one fixed namespace, whatever the context's.
CreateCall_FixedNamespace(ns, tmpl) ==
    [verb |-> "create", namespace |-> "ns1", body |-> tmpl]

CreateCall(ns, tmpl) == [verb |-> "create", namespace |-> ns, body |-> tmpl]

ListCall(ns, opts) == [verb |-> "list", namespace |-> ns, options |-> opts]

\* A call as the cluster saw it: the request, the object or items it answered
\* with, and its error.
Exchange(request, obj, items, error) ==
    [request |-> request, obj |-> obj, items |-> items, err |-> error]

\* Position of the first "=" of a selector (0: none).
RECURSIVE EqualsAt(_, _)
EqualsAt(s, i) ==
    IF i > Len(s) THEN 0 ELSE IF s[i] = "=" THEN i ELSE EqualsAt(s, i + 1)

\* An equality selector "key=value" read back as its key and its value (a
\* selector without "=" asks for the key alone).
ParseSelector(s) ==
    LET i == EqualsAt(s, 1)
    IN  IF i = 0
        THEN [key |-> s, exists |-> TRUE, value |-> <<>>]
        ELSE [key |-> SubSeq(s, 1, i - 1), exists |-> FALSE,
              value |-> SubSeq(s, i + 1, Len(s))]

Matches(v, selector) ==
    LET r == ParseSelector(selector)
    IN  /\ r.key \in DOMAIN v.Labels
        /\ r.exists \/ v.Labels[r.key] = r.value

Matching(vms, ns, opts) ==
    {v \in vms : v.Namespace = ns /\ Matches(v, opts.LabelSelector)}

\* The items of a list, in the order of their names.
RECURSIVE Items(_)
Items(vms) ==
    IF vms = {} THEN <<>>
    ELSE LET first == CHOOSE v \in vms : \A w \in vms : v.Name[2] <= w.Name[2]
         IN  <<first>> \o Items(vms \ {first})

----------------------------------------------------------------------------
\* Selector and FindJobVM, the local part

\* Mutant: the filter names another key than the label CreateJobVM sets.
Selector_OtherKey(j) ==
    [LabelSelector |-> labelPrefix \o <<"/","j","o","b","=">> \o j.ID]

\* Mutant: the "/" between the prefix and "id" is missing from the format.
Selector_NoSlash(j) == [LabelSelector |-> labelPrefix \o <<"i","d","=">> \o j.ID]

Selector(j) == [LabelSelector |-> labelPrefix \o <<"/","i","d","=">> \o j.ID]

\* Mutant: any match is good enough, the first is returned.
Classify_FirstMatch(items, j) ==
    IF Len(items) = 0
    THEN [ret |-> Nil, err |-> Error("InstanceVanished", "", 0, <<>>)]
    ELSE [ret |-> items[1], err |-> NoErr]

\* Mutant: the ambiguity test is off by one.
Classify_OffByOne(items, j) ==
    IF Len(items) = 0
    THEN [ret |-> Nil, err |-> Error("InstanceVanished", "", 0, <<>>)]
    ELSE IF Len(items) > 2
    THEN [ret |-> Nil, err |-> Error("AmbiguousInstance", "", Len(items), j.ID)]
    ELSE [ret |-> items[1], err |-> NoErr]

\* What FindJobVM returns for the items of a list that succeeded.
Classify(items, j) ==
    IF Len(items) = 0
    THEN [ret |-> Nil, err |-> Error("InstanceVanished", "", 0, <<>>)]
    ELSE IF Len(items) > 1
    THEN [ret |-> Nil, err |-> Error("AmbiguousInstance", "", Len(items), j.ID)]
    ELSE [ret |-> items[1], err |-> NoErr]

----------------------------------------------------------------------------
\* History

Provisioned(j, v) ==
    /\ succeeded' = [succeeded EXCEPT ![<<j.Namespace, j.ID>>] = @ + 1]
    /\ sole' = [sole EXCEPT ![<<j.Namespace, j.ID>>] =
                    IF \E w \in cluster :
                          /\ w.Namespace = j.Namespace
                          /\ w.Labels[LabelKey] = j.ID
                    THEN NoName ELSE v.Name]

----------------------------------------------------------------------------
\* Operations

Init ==
    /\ cluster = {}
    /\ nameCounter = 0
    /\ op = "none"
    /\ jctx = NoJob
    /\ ret = Nil
    /\ err = NoErr
    /\ apiCalls = <<>>
    /\ succeeded = [k \in Namespaces \X IDs |-> 0]
    /\ sole = [k \in Namespaces \X IDs |-> NoName]

Returns(name, j, r, e, calls) ==
    /\ op' = name
    /\ jctx' = j
    /\ ret' = r
    /\ err' = e
    /\ apiCalls' = calls

\* The cluster admits an instance.
Created(v) ==
    /\ nameCounter < MaxVMs
    /\ cluster' = cluster \cup {v}
    /\ nameCounter' = nameCounter + 1

\* Mutant: the instance is submitted first and the context checked afterwards.
CreateJobVM_SubmitFirst(j) ==
    LET call == CreateCall(j.Namespace, instanceTemplate(j))
        v == Admitted(call.namespace, call.body, nameCounter + 1)
        e == IF ParseFailure(j) # ""
             THEN Error("ResourceSpecInvalid", ParseFailure(j), 0, <<>>)
             ELSE IF ImageMissing(j) THEN Error("MissingImage", "", 0, <<>>)
             ELSE NoErr
    IN  /\ Created(v)
        /\ Returns("CreateJobVM", j, IF e = NoErr THEN v ELSE Nil, e,
                   <<Exchange(call, v, <<>>, NoErr)>>)
        /\ IF e = NoErr THEN Provisioned(j, v) ELSE UNCHANGED <<succeeded, sole>>

CreateJobVM(j) ==
    IF ParseFailure(j) # ""
    THEN /\ Returns("CreateJobVM", j, Nil,
                    Error("ResourceSpecInvalid", ParseFailure(j), 0, <<>>), <<>>)
         /\ UNCHANGED <<cluster, nameCounter, succeeded, sole>>
    ELSE IF ImageMissing(j)
    THEN /\ Returns("CreateJobVM", j, Nil, Error("MissingImage", "", 0, <<>>), <<>>)
         /\ UNCHANGED <<cluster, nameCounter, succeeded, sole>>
    ELSE LET call == CreateCall(j.Namespace, instanceTemplate(j))
         IN  \/ LET v == Admitted(call.namespace, call.body, nameCounter + 1)
                IN  /\ Created(v)
                    /\ Returns("CreateJobVM", j, v, NoErr,
                               <<Exchange(call, v, <<>>, NoErr)>>)
                    /\ Provisioned(j, v)
             \/ LET failure == Error("SubmissionFailed", "", 0, <<>>)
                IN  /\ Returns("CreateJobVM", j, Nil, failure,
                               <<Exchange(call, Nil, <<>>, failure)>>)
                    /\ UNCHANGED <<cluster, nameCounter, succeeded, sole>>

\* Mutant: an ambiguity is resolved by removing every match but the first.
FindJobVM_Resolving(j) ==
    LET call == ListCall(j.Namespace, Selector(j))
        items == Items(Matching(cluster, call.namespace, call.options))
    IN  /\ Returns("FindJobVM", j, IF Len(items) = 0 THEN Nil ELSE items[1],
                   IF Len(items) = 0
                   THEN Error("InstanceVanished", "", 0, <<>>) ELSE NoErr,
                   <<Exchange(call, Nil, items, NoErr)>>)
        /\ cluster' = {v \in cluster :
                          \A i \in 2..Len(items) : v # items[i]}
        /\ UNCHANGED <<nameCounter, succeeded, sole>>

FindJobVM(j) ==
    LET call == ListCall(j.Namespace, Selector(j))
    IN  /\ \/ LET items == Items(Matching(cluster, call.namespace, call.options))
                  r == Classify(items, j)
              IN  Returns("FindJobVM", j, r.ret, r.err,
                          <<Exchange(call, Nil, items, NoErr)>>)
           \/ LET failure == Error("ListFailed", "", 0, <<>>)
              IN  Returns("FindJobVM", j, Nil, failure,
                          <<Exchange(call, Nil, <<>>, failure)>>)
        /\ UNCHANGED <<cluster, nameCounter, succeeded, sole>>

\* The instance's owner outside this file removes it when the job is over.
Teardown(v) ==
    /\ cluster' = cluster \ {v}
    /\ sole' = [sole EXCEPT ![<<v.Namespace, v.Labels[LabelKey]>>] = NoName]
    /\ Returns("Teardown", NoJob, Nil, NoErr, <<>>)
    /\ UNCHANGED <<nameCounter, succeeded>>

Next ==
    \/ \E j \in JobContexts : CreateJobVM(j)
    \/ \E j \in ValidContexts : FindJobVM(j)
    \/ \E v \in cluster : Teardown(v)

Spec == Init /\ [][Next]_vars

----------------------------------------------------------------------------
\* Vocabulary of the properties

\* The instances of a namespace whose identity label equals an ID.
Labelled(ns, id) ==
    {v \in cluster : v.Namespace = ns /\ v.Labels[LabelKey] = id}

ListSucceeded == op = "FindJobVM" /\ err.kind # "ListFailed"

FieldOrder == <<"cpu.request", "cpu.limit", "memory.request", "memory.limit">>

FieldText(j, f) ==
    CASE f = "cpu.request" -> j.CPURequest
      [] f = "cpu.limit" -> j.CPULimit
      [] f = "memory.request" -> j.MemoryRequest
      [] f = "memory.limit" -> j.MemoryLimit

Malformed(j) ==
    {i \in 1..Len(FieldOrder) : ~ParseQuantity(FieldText(j, FieldOrder[i])).ok}

FirstMalformed(j) ==
    FieldOrder[CHOOSE i \in Malformed(j) : \A k \in Malformed(j) : i <= k]

\* IDs a filter may be built for, beyond those instances are created with: the
\* empty ID and IDs that are a part or an extension of "job-1". All are label
\* values (letters, digits, "-"), which the cluster reads back from a filter as
\* they were written.
FilterIDs ==
    IDs \cup { <<>>, <<"j","o","b">>, <<"1">>, <<"o","b","-","1">>,
               <<"j","o","b","-","1","1">> }

WithID(id) == [NoJob EXCEPT !.ID = id]

----------------------------------------------------------------------------
\* C1: after a FindJobVM whose list call succeeded, with n the number of
\* instances in the context's namespace whose identity label equals its ID:
\* n = 0 gives InstanceVanished and no instance, n = 1 gives that instance and
\* no error, n >= 2 gives AmbiguousInstance carrying n and the ID, and no instance.
C1_FindClassifies ==
    ListSucceeded =>
        LET matches == Labelled(jctx.Namespace, jctx.ID)
            n == Cardinality(matches)
        IN  /\ n = 0 => ret = Nil /\ err.kind = "InstanceVanished"
            /\ n = 1 => ret \in matches /\ err = NoErr
            /\ n >= 2 => ret = Nil /\ err = Error("AmbiguousInstance", "", n, jctx.ID)

\* The one match is found among instances of another ID and another namespace.
C1_Witness ==
    /\ ListSucceeded
    /\ Cardinality(Labelled(jctx.Namespace, jctx.ID)) = 1
    /\ ret \in cluster
    /\ Cardinality(cluster) >= 2

\* C2: a context whose four quantities parse and whose Image is not empty makes
\* CreateJobVM issue exactly one call, a create in the context's namespace,
\* whose body has the identity label equal to the ID, requests {cpu: CPURequest,
\* memory: MemoryRequest} and limits {cpu: CPULimit, memory: MemoryLimit}; and
\* CreateJobVM returns what the cluster answered.
C2_CreateSubmitsOnce ==
    (op = "CreateJobVM" /\ Malformed(jctx) = {} /\ jctx.Image # "") =>
        /\ Len(apiCalls) = 1
        /\ LET call == apiCalls[1].request
           IN  /\ call.verb = "create"
               /\ call.namespace = jctx.Namespace
               /\ DOMAIN call.body.Labels = {LabelKey}
               /\ call.body.Labels[LabelKey] = jctx.ID
               /\ call.body.Resources.Requests =
                      [cpu |-> Quantity(jctx.CPURequest),
                       memory |-> Quantity(jctx.MemoryRequest)]
               /\ call.body.Resources.Limits =
                      [cpu |-> Quantity(jctx.CPULimit),
                       memory |-> Quantity(jctx.MemoryLimit)]
        /\ ret = apiCalls[1].obj
        /\ err = apiCalls[1].err
        /\ err = NoErr => ret \in cluster /\ ret.Namespace = jctx.Namespace

C2_Witness ==
    /\ op = "CreateJobVM"
    /\ err = NoErr
    /\ ret \in cluster
    /\ ret.Resources.Limits.cpu = [value |-> 500, suffix |-> <<"m">>]
    /\ ret.Resources.Requests.memory = [value |-> 256, suffix |-> <<"M","i">>]

\* C3: a context with a malformed quantity makes CreateJobVM fail with
\* ResourceSpecInvalid naming the first malformed field in the order cpu.request,
\* cpu.limit, memory.request, memory.limit, return no instance and make no
\* cluster call; the cluster's instances are what they were.
C3_MalformedQuantity ==
    [][(op' = "CreateJobVM" /\ Malformed(jctx') # {}) =>
          /\ err' = Error("ResourceSpecInvalid", FirstMalformed(jctx'), 0, <<>>)
          /\ ret' = Nil
          /\ apiCalls' = <<>>
          /\ cluster' = cluster
          /\ nameCounter' = nameCounter]_vars

\* Two fields are malformed, the first is named, and the cluster holds instances.
C3_Witness ==
    /\ op = "CreateJobVM"
    /\ Cardinality(Malformed(jctx)) >= 2
    /\ err.kind = "ResourceSpecInvalid"
    /\ err.field = "cpu.limit"
    /\ cluster # {}

\* C4 as stated: every context with an empty Image makes CreateJobVM fail with
\* MissingImage and make no cluster call.
C4_Original ==
    (op = "CreateJobVM" /\ jctx.Image = "") =>
        err.kind = "MissingImage" /\ apiCalls = <<>>

\* C4 as amended: every context with an empty Image makes CreateJobVM fail,
\* return no instance and make no cluster call, leaving the cluster's instances
\* as they were; the error is MissingImage when the four quantities parse, and
\* ResourceSpecInvalid for the first malformed field when one does not.
C4_EmptyImage ==
    [][(op' = "CreateJobVM" /\ jctx'.Image = "") =>
          /\ err' = IF Malformed(jctx') = {}
                    THEN Error("MissingImage", "", 0, <<>>)
                    ELSE Error("ResourceSpecInvalid", FirstMalformed(jctx'), 0, <<>>)
          /\ ret' = Nil
          /\ apiCalls' = <<>>
          /\ cluster' = cluster
          /\ nameCounter' = nameCounter]_vars

C4_Witness ==
    /\ op = "CreateJobVM"
    /\ jctx.Image = ""
    /\ Malformed(jctx) = {}
    /\ err.kind = "MissingImage"
    /\ cluster # {}

\* C5 as stated: at most one instance of a namespace carries a given ID.
C5_Original ==
    \A ns \in Namespaces, id \in IDs : Cardinality(Labelled(ns, id)) <= 1

\* C5 as amended: the instances of a namespace that carry a given ID are never
\* more than the CreateJobVM calls that succeeded for that ID and namespace, so
\* they are at most one as long as at most one such call succeeded; a second
\* successful call is not prevented.
C5_AtMostOnePerSuccess ==
    \A ns \in Namespaces, id \in IDs :
        /\ Cardinality(Labelled(ns, id)) <= succeeded[<<ns, id>>]
        /\ \A v \in cluster : DOMAIN v.Labels = {LabelKey} /\ v.Labels[LabelKey] \in IDs

\* One call succeeded for an ID in each namespace: one instance in each.
C5_Witness ==
    \E id \in IDs :
        \A ns \in Namespaces :
            succeeded[<<ns, id>>] = 1 /\ Cardinality(Labelled(ns, id)) = 1

\* C6: once two CreateJobVM calls for the same ID and namespace have succeeded,
\* a FindJobVM for that ID while their instances exist returns no instance, and
\* when its list call succeeds it fails with AmbiguousInstance reporting the
\* number of instances, 2 for the two.
C6_RaceCaughtByLocator ==
    LET k == <<jctx.Namespace, jctx.ID>>
        n == Cardinality(Labelled(jctx.Namespace, jctx.ID))
    IN  (op = "FindJobVM" /\ succeeded[k] >= 2 /\ n >= 2) =>
            /\ ret = Nil
            /\ ListSucceeded => err = Error("AmbiguousInstance", "", n, jctx.ID)

C6_Witness ==
    /\ ListSucceeded
    /\ succeeded[<<jctx.Namespace, jctx.ID>>] = 2
    /\ Cardinality(Labelled(jctx.Namespace, jctx.ID)) = 2
    /\ err = Error("AmbiguousInstance", "", 2, jctx.ID)

\* C7: when CreateJobVM succeeded for a context in a namespace holding no other
\* instance with its ID, and no instance with that ID was created or deleted
\* there since, a FindJobVM for the context whose list call succeeds returns,
\* without error, the instance CreateJobVM returned (the same name).
C7_LocateAfterProvision ==
    (ListSucceeded /\ sole[<<jctx.Namespace, jctx.ID>>] # NoName) =>
        /\ err = NoErr
        /\ ret.Name = sole[<<jctx.Namespace, jctx.ID>>]
        /\ ret \in cluster

\* The second instance created is found again, among others.
C7_Witness ==
    /\ ListSucceeded
    /\ sole[<<jctx.Namespace, jctx.ID>>] # NoName
    /\ ret.Name = sole[<<jctx.Namespace, jctx.ID>>]
    /\ ret.Name[2] = 2
    /\ Cardinality(cluster) >= 2

\* C8: the filter of a context is the label key CreateJobVM sets, "=", and the
\* ID; contexts with different IDs get different filters; and the filter for ID
\* x matches the instance CreateJobVM created for ID y exactly when x = y.
C8_SelectorInvertsLabel ==
    /\ \A x \in FilterIDs :
          \A key \in DOMAIN instanceTemplate(WithID(x)).Labels :
              Selector(WithID(x)).LabelSelector = key \o <<"=">> \o x
    /\ \A x, y \in FilterIDs :
          x # y => Selector(WithID(x)) # Selector(WithID(y))
    /\ (op = "CreateJobVM" /\ err = NoErr) =>
          \A x \in FilterIDs :
              Matches(ret, Selector(WithID(x)).LabelSelector) <=> x = jctx.ID

C8_Witness ==
    /\ op = "CreateJobVM"
    /\ err = NoErr
    /\ Matches(ret, Selector(jctx).LabelSelector)
    /\ \E x \in IDs : ~Matches(ret, Selector(WithID(x)).LabelSelector)

\* C9: a FindJobVM step, whatever it returns, leaves the cluster's instances as
\* they were and issues one call, a list.
C9_FindOnlyReads ==
    [][op' = "FindJobVM" =>
          /\ cluster' = cluster
          /\ nameCounter' = nameCounter
          /\ Len(apiCalls') = 1
          /\ apiCalls'[1].request.verb = "list"
          /\ err'.kind \in {"nil", "InstanceVanished", "AmbiguousInstance", "ListFailed"}]_vars

C9_Witness ==
    /\ op = "FindJobVM"
    /\ err.kind = "AmbiguousInstance"
    /\ Cardinality(cluster) = 2

\* C10: FindJobVM returns an instance only if a CreateJobVM call for the same ID
\* (and namespace) succeeded before; a CreateJobVM that fails returns no
\* instance, has made at most one cluster call and leaves the cluster's
\* instances and the record of successes as they were.
C10_LocatedOnlyAfterProvisioned ==
    [][/\ (op' = "FindJobVM" /\ ret' # Nil) =>
              succeeded'[<<jctx'.Namespace, jctx'.ID>>] >= 1
       /\ (op' = "CreateJobVM" /\ err' # NoErr) =>
              /\ ret' = Nil
              /\ Len(apiCalls') <= 1
              /\ cluster' = cluster
              /\ succeeded' = succeeded]_vars

\* A context is located after the one provision that succeeded for it.
C10_Witness ==
    /\ op = "FindJobVM"
    /\ ret # Nil
    /\ succeeded[<<jctx.Namespace, jctx.ID>>] = 1
    /\ nameCounter = 1

=============================================================================
